---- MODULE Spec2Model ----
(***************************************************************************)
(* Model of mysql_table_creator/sql_manager.py: the allow-list validators, *)
(* the value coercion, and the two statement builders table_creator and    *)
(* append_row, run against a connection whose execute and commit may fail. *)
(*                                                                         *)
(* Text is a sequence of one-character strings, so that regular-expression *)
(* matching, case conversion, removesuffix and int()/float() parsing are   *)
(* computed character by character as Python computes them.                *)
(***************************************************************************)
EXTENDS Integers, Sequences, FiniteSets

VARIABLES
    sql_literals,   \* the module global: NotLoaded until connect() loads it
    uncommitted,    \* statements executed on the connection since its last commit
    call,           \* the call that has just returned, as its caller sees it
    input,          \* the argument of a validator or of the coercion (pure checks)
    result          \* what that function returned

vars == <<sql_literals, uncommitted, call, input, result>>

-----------------------------------------------------------------------------
(* Bounds of the model.                                                    *)

MaxLen == 3         \* longest enumerated input string of a pure function
MaxCols == 2        \* most columns / column names of one call
MaxRow == 2         \* most values of one row
MaxPending == 2     \* most statements left uncommitted on the connection

-----------------------------------------------------------------------------
(* Characters and text.                                                    *)

UpperSeq ==
    <<"A", "B", "C", "D", "E", "F", "G", "H", "I", "J", "K", "L", "M",
      "N", "O", "P", "Q", "R", "S", "T", "U", "V", "W", "X", "Y", "Z">>
LowerSeq ==
    <<"a", "b", "c", "d", "e", "f", "g", "h", "i", "j", "k", "l", "m",
      "n", "o", "p", "q", "r", "s", "t", "u", "v", "w", "x", "y", "z">>
DigitSeq ==
    <<"0", "1", "2", "3", "4", "5", "6", "7", "8", "9">>

Range(f) == {f[i] : i \in DOMAIN f}
UpperChars == Range(UpperSeq)
LowerChars == Range(LowerSeq)
DigitChars == Range(DigitSeq)
\* what str.strip(), and so int() and float(), drop at both ends
SpaceChars == {" ", "\n", "\t", "\r"}

\* the grave accent U+0060, which a string literal of this language cannot hold
Backtick == "U+0060"

IndexOf(c, seq) == CHOOSE i \in DOMAIN seq : seq[i] = c

\* str.upper() and str.lower(), one character
upper_char(c) == IF c \in LowerChars THEN UpperSeq[IndexOf(c, LowerSeq)] ELSE c
lower_char(c) == IF c \in UpperChars THEN LowerSeq[IndexOf(c, UpperSeq)] ELSE c
upper(s) == [i \in DOMAIN s |-> upper_char(s[i])]
lower(s) == [i \in DOMAIN s |-> lower_char(s[i])]

\* s[lo..hi] are all of class cls (an empty range is)
AllIn(s, lo, hi, cls) == \A i \in lo..hi : s[i] \in cls

\* the regular expression's $ at position i (the next character to read):
\* the end of the text, or just before a newline that ends the text
AtDollar(s, i) == i = Len(s) + 1 \/ (i = Len(s) /\ s[i] = "\n")

\* text s continues with the literal lit from position i
HasAt(s, i, lit) ==
    /\ i + Len(lit) - 1 <= Len(s)
    /\ \A j \in 1..Len(lit) : s[i + j - 1] = lit[j]

\* str.removesuffix
removesuffix_noop(s, suffix) == s
removesuffix(s, suffix) ==
    IF Len(s) >= Len(suffix) /\ HasAt(s, Len(s) - Len(suffix) + 1, suffix)
    THEN SubSeq(s, 1, Len(s) - Len(suffix))
    ELSE s

RECURSIVE Repeat(_, _)
\* s * n
Repeat(s, n) == IF n <= 0 THEN <<>> ELSE s \o Repeat(s, n - 1)

RECURSIVE Flatten(_)
Flatten(ss) == IF ss = <<>> THEN <<>> ELSE Head(ss) \o Flatten(Tail(ss))

RECURSIVE join(_, _)
\* sep.join(ss)
join(sep, ss) ==
    IF ss = <<>> THEN <<>>
    ELSE IF Len(ss) = 1 THEN ss[1]
    ELSE ss[1] \o sep \o join(sep, Tail(ss))

\* all texts over alphabet of length at most n
RECURSIVE TextsUpTo(_, _)
TextsUpTo(alphabet, n) ==
    IF n = 0 THEN {<<>>}
    ELSE LET shorter == TextsUpTo(alphabet, n - 1)
         IN  shorter \cup {Append(t, c) : t \in shorter, c \in alphabet}

-----------------------------------------------------------------------------
(* The Literal Catalog.  sql_literals.json is read by connect(); the global *)
(* does not exist before that.  A pattern is a literal text, anchored with  *)
(* a final $ or left open (re.match then accepts any continuation).         *)

NotLoaded == [unbound |-> TRUE]

Pattern(lit, anchored) == [lit |-> lit, anchored |-> anchored]

sql_literals_json ==
    [datatypes |->
        << Pattern(<<"I", "N", "T">>, TRUE),
           Pattern(<<"T", "E", "X", "T">>, FALSE) >>,
     constraints |->
        << Pattern(<<"N", "O", "T", " ", "N", "U", "L", "L">>, TRUE),
           Pattern(<<"U", "N", "I", "Q", "U", "E">>, FALSE) >>,
     reserved_words |->
        { <<"A", "S">>, <<"K", "E", "Y">>, <<"T", "A", "B", "L", "E">> }]

\* re.match(pattern, text)
re_match(pattern, text) ==
    /\ HasAt(text, 1, pattern.lit)
    /\ pattern.anchored => AtDollar(text, Len(pattern.lit) + 1)

\* re.match(r"^[A-Z][a-zA-Z_]*$", value)
match_table(value) ==
    /\ Len(value) >= 1
    /\ value[1] \in UpperChars
    /\ \E k \in 2..(Len(value) + 1) :
          /\ AllIn(value, 2, k - 1, UpperChars \cup LowerChars \cup {"_"})
          /\ AtDollar(value, k)

\* re.match(r"^[a-z_]*$", value)
match_column(value) ==
    \E k \in 1..(Len(value) + 1) :
        /\ AllIn(value, 1, k - 1, LowerChars \cup {"_"})
        /\ AtDollar(value, k)

-----------------------------------------------------------------------------
(* The validators.  Each returns what it returned or raised, and whether   *)
(* it read the global sql_literals.                                        *)

Returned(val) == [err |-> "none", val |-> val, read |-> TRUE]
Raised(err, read) == [err |-> err, val |-> <<>>, read |-> read]

clean_reserved_words(value, literals) ==
    IF literals = NotLoaded THEN Raised("NameError", TRUE)
    ELSE IF upper(value) \in literals.reserved_words
         THEN Returned(<<Backtick>> \o value \o <<Backtick>>)
         ELSE Returned(value)

allowed_type(type, literals) ==
    IF literals = NotLoaded THEN Raised("NameError", TRUE)
    ELSE IF \E i \in DOMAIN literals.datatypes :
                re_match(literals.datatypes[i], upper(type))
         THEN Returned(lower(type))
         ELSE Raised("ValueError", TRUE)

allowed_constraint(constraint, literals) ==
    IF literals = NotLoaded THEN Raised("NameError", TRUE)
    ELSE IF \E i \in DOMAIN literals.constraints :
                re_match(literals.constraints[i], upper(constraint))
         THEN Returned(upper(constraint))
         ELSE Raised("ValueError", TRUE)

allowed_value_table(value, literals) ==
    IF match_table(value)
    THEN clean_reserved_words(value, literals)
    ELSE Raised("ValueError", FALSE)

allowed_value_column(value, literals) ==
    IF match_column(value)
    THEN clean_reserved_words(value, literals)
    ELSE Raised("ValueError", FALSE)

-----------------------------------------------------------------------------
(* Python values: text, int, float, bool and None.  A float is the decimal *)
(* m / 10^e with no trailing zero in its fraction, which is what the       *)
(* shortest repr of a float of a few digits shows.                         *)

StrV(s) == [t |-> "str", s |-> s]
IntV(n) == [t |-> "int", n |-> n]
FloatV(m, e) == [t |-> "float", m |-> m, e |-> e]
BoolV(b) == [t |-> "bool", b |-> b]
NoneV == [t |-> "NoneType"]

RECURSIVE Pow10(_)
Pow10(e) == IF e = 0 THEN 1 ELSE 10 * Pow10(e - 1)

RECURSIVE Digits(_)
\* the decimal digits of a natural number
Digits(n) ==
    IF n < 10 THEN <<DigitSeq[n + 1]>>
    ELSE Append(Digits(n \div 10), DigitSeq[(n % 10) + 1])

RECURSIVE DigitsValue(_)
\* the number a text of digits denotes (leading zeros allowed)
DigitsValue(s) ==
    IF s = <<>> THEN 0
    ELSE 10 * DigitsValue(SubSeq(s, 1, Len(s) - 1)) + (IndexOf(s[Len(s)], DigitSeq) - 1)

RECURSIVE ZeroPad(_, _)
ZeroPad(s, width) == IF Len(s) >= width THEN s ELSE ZeroPad(<<"0">> \o s, width)

RECURSIVE Normalize(_, _)
Normalize(m, e) ==
    IF e > 0 /\ m % 10 = 0 THEN Normalize(m \div 10, e - 1) ELSE FloatV(m, e)

RECURSIVE strip(_)
\* str.strip()
strip(s) ==
    IF s # <<>> /\ s[1] \in SpaceChars THEN strip(Tail(s))
    ELSE IF s # <<>> /\ s[Len(s)] \in SpaceChars THEN strip(SubSeq(s, 1, Len(s) - 1))
    ELSE s

\* str(value)
python_str(value) ==
    CASE value.t = "str" -> value.s
      [] value.t = "int" ->
            IF value.n < 0 THEN <<"-">> \o Digits(0 - value.n) ELSE Digits(value.n)
      [] value.t = "float" ->
            Digits(value.m \div Pow10(value.e)) \o <<".">> \o
            (IF value.e = 0 THEN <<"0">>
             ELSE ZeroPad(Digits(value.m % Pow10(value.e)), value.e))
      [] value.t = "bool" ->
            IF value.b THEN <<"T", "r", "u", "e">> ELSE <<"F", "a", "l", "s", "e">>
      [] value.t = "NoneType" -> <<"N", "o", "n", "e">>

Converted(v) == [err |-> "none", v |-> v]
ConversionError == [err |-> "ValueError", v |-> NoneV]

\* int(text): surrounding whitespace is dropped, the rest must be digits
python_int(text) ==
    LET t == strip(text)
    IN  IF t # <<>> /\ AllIn(t, 1, Len(t), DigitChars)
        THEN Converted(IntV(DigitsValue(t)))
        ELSE ConversionError

\* float(text), for the texts digits.digits
python_float(text) ==
    LET t == strip(text)
        dots == {i \in DOMAIN t : t[i] = "."}
    IN  IF /\ Cardinality(dots) = 1
           /\ \A i \in dots :
                /\ 1 < i /\ i < Len(t)
                /\ AllIn(t, 1, i - 1, DigitChars)
                /\ AllIn(t, i + 1, Len(t), DigitChars)
        THEN LET i == CHOOSE d \in dots : TRUE
                 whole == SubSeq(t, 1, i - 1)
                 frac == SubSeq(t, i + 1, Len(t))
             IN  Converted(Normalize(DigitsValue(whole \o frac), Len(frac)))
        ELSE ConversionError

\* bool(text): any non-empty text is true
python_bool_parsed(text) == HasAt(text, 1, <<"t", "r", "u", "e">>)
python_bool(text) == text # <<>>

\* re.match(r"^[0-9]+$", value)
regex_int(value) ==
    \E k \in 2..(Len(value) + 1) :
        AllIn(value, 1, k - 1, DigitChars) /\ AtDollar(value, k)

\* re.match(r"^[0-9]+\.[0-9]+$", value)
regex_float(value) ==
    \E i \in 2..Len(value) : \E k \in (i + 2)..(Len(value) + 1) :
        /\ AllIn(value, 1, i - 1, DigitChars)
        /\ value[i] = "."
        /\ AllIn(value, i + 1, k - 1, DigitChars)
        /\ AtDollar(value, k)

\* re.match(r"^(true|false)$", value)
regex_bool(value) ==
    \E lit \in {<<"t", "r", "u", "e">>, <<"f", "a", "l", "s", "e">>} :
        HasAt(value, 1, lit) /\ AtDollar(value, Len(lit) + 1)

\* re.match(r"^null$", value)
regex_null(value) ==
    HasAt(value, 1, <<"n", "u", "l", "l">>) /\ AtDollar(value, 5)

convert_to_python_type(value) ==
    LET text == python_str(value)
    IN  IF regex_int(text) THEN python_int(text)
        ELSE IF regex_float(text) THEN python_float(text)
        ELSE IF regex_bool(text) THEN Converted(BoolV(python_bool(text)))
        ELSE IF regex_null(text) THEN Converted(NoneV)
        ELSE Converted(StrV(text))

-----------------------------------------------------------------------------
(* One call of a builder.  The frame holds the call's locals (query), the  *)
(* caller's row list, which append_row writes in place, the connection's   *)
(* count of uncommitted statements, the exception that ended the call, and *)
(* the calls made on the way, in order.                                    *)

NoStatement == [sent |-> FALSE, text |-> <<>>, params |-> <<>>]
Statement(text, params) == [sent |-> TRUE, text |-> text, params |-> params]

Event(ev, kind, ok, catalog, val) ==
    [ev |-> ev, kind |-> kind, ok |-> ok, catalog |-> catalog, val |-> val]

Frame(pending, row) ==
    [query |-> <<>>, events |-> <<>>, err |-> "none", sent |-> NoStatement,
     pending |-> pending, row |-> row]

\* a validator is called: after an exception nothing more of the call runs
Check(fr, kind, res, literals) ==
    IF fr.err # "none" THEN fr
    ELSE [fr EXCEPT
            !.events = Append(@, Event("validate", kind, res.err = "none",
                                IF ~res.read THEN "unread"
                                ELSE IF literals = NotLoaded THEN "unloaded"
                                ELSE "loaded",
                                res.val)),
            !.err = res.err]

\* query += text
Emit(fr, text) == IF fr.err # "none" THEN fr ELSE [fr EXCEPT !.query = @ \o text]

\* query = query.removesuffix(", ")
Strip(fr) ==
    IF fr.err # "none" THEN fr
    ELSE [fr EXCEPT !.query = removesuffix(@, <<",", " ">>)]

\* cursor.execute(query[, params])
cursor_execute_unguarded(fr, params, ok) ==
    [fr EXCEPT
        !.events = Append(@, Event("execute", "-", ok, "unread", <<>>)),
        !.sent = Statement(fr.query, params),
        !.pending = IF ok THEN @ + 1 ELSE @]
cursor_execute(fr, params, ok) ==
    IF fr.err # "none" THEN fr
    ELSE [fr EXCEPT
            !.events = Append(@, Event("execute", "-", ok, "unread", <<>>)),
            !.sent = Statement(fr.query, params),
            !.err = IF ok THEN "none" ELSE "ExecutionError",
            !.pending = IF ok THEN @ + 1 ELSE @]

\* con.commit()
con_commit(fr, ok) ==
    IF fr.err # "none" THEN fr
    ELSE [fr EXCEPT
            !.events = Append(@, Event("commit", "-", ok, "unread", <<>>)),
            !.err = IF ok THEN "none" ELSE "CommitError",
            !.pending = IF ok THEN 0 ELSE @]

kw_create ==
    <<"C", "R", "E", "A", "T", "E", " ", "T", "A", "B", "L", "E", " ", "I", "F", " ", "N", "O", "T", " ", "E", "X", "I", "S", "T", "S", " ">>
kw_foreign ==
    <<"F", "O", "R", "E", "I", "G", "N", " ", "K", "E", "Y", " ", "(">>
kw_references ==
    <<")", " ", "R", "E", "F", "E", "R", "E", "N", "C", "E", "S", " ">>
kw_insert ==
    <<"I", "N", "S", "E", "R", "T", " ", "I", "N", "T", "O", " ">>
kw_values ==
    <<")", " ", "V", "A", "L", "U", "E", "S", " ", "(">>

RECURSIVE constraints_loop(_, _, _)
\* for constraint in column["constraints"]: query += f"{allowed_constraint(constraint)} "
constraints_loop(fr, constraints, literals) ==
    IF constraints = <<>> THEN fr
    ELSE LET r == allowed_constraint(Head(constraints), literals)
         IN  constraints_loop(Emit(Check(fr, "constraint", r, literals), r.val \o <<" ">>),
                              Tail(constraints), literals)

RECURSIVE columns_loop(_, _, _)
\* for column in table_schema["columns"]: ...
columns_loop(fr, columns, literals) ==
    IF columns = <<>> THEN fr
    ELSE LET column == Head(columns)
             n == allowed_value_column(column.name, literals)
             d == allowed_type(column.datatype, literals)
             named == Check(fr, "column", n, literals)
             typed == Emit(Check(named, "type", d, literals),
                           n.val \o <<" ">> \o d.val \o <<" ">>)
             constrained == constraints_loop(typed, column.constraints, literals)
         IN  columns_loop(Emit(constrained, <<",", " ">>), Tail(columns), literals)

RECURSIVE foreign_keys_loop(_, _, _)
\* for foreign_key in table_schema["foreign_keys"]: ...
foreign_keys_loop(fr, foreign_keys, literals) ==
    IF foreign_keys = <<>> THEN fr
    ELSE LET foreign_key == Head(foreign_keys)
             n == allowed_value_column(foreign_key.name, literals)
             t == allowed_value_table(foreign_key.references_table, literals)
             c == allowed_value_column(foreign_key.references_column, literals)
             checked == Check(Check(Check(fr, "column", n, literals),
                                    "table", t, literals),
                              "column", c, literals)
             clause == Emit(checked, kw_foreign \o n.val \o kw_references \o t.val
                                     \o <<"(">> \o c.val \o <<")", " ">>)
         IN  foreign_keys_loop(Emit(clause, <<",", " ">>), Tail(foreign_keys), literals)

\* table_creator(table_schema, con, cursor), on a connection with `pending`
\* uncommitted statements whose execute and commit go as con says
table_creator(table_schema, literals, con, pending) ==
    LET t == allowed_value_table(table_schema.name, literals)
        named == Emit(Check(Frame(pending, <<>>), "table", t, literals),
                      kw_create \o t.val \o <<" ", "(">>)
        columns == columns_loop(named, table_schema.columns, literals)
        keys == IF table_schema.has_foreign_keys
                THEN foreign_keys_loop(columns, table_schema.foreign_keys, literals)
                ELSE columns
        query == Emit(Strip(keys), <<")", ";">>)
    IN  con_commit(cursor_execute(query, <<>>, con.execute_ok), con.commit_ok)

RECURSIVE coerce_loop(_, _)
\* for i, entry in enumerate(row): row[i] = convert_to_python_type(entry)
coerce_loop(fr, i) ==
    IF fr.err # "none" \/ i > Len(fr.row) THEN fr
    ELSE LET c == convert_to_python_type(fr.row[i])
         IN  IF c.err # "none" THEN [fr EXCEPT !.err = c.err]
             ELSE coerce_loop([fr EXCEPT !.row[i] = c.v], i + 1)

RECURSIVE column_names_loop(_, _, _)
\* [allowed_value_column(column) for column in column_names]
column_names_loop(fr, column_names, literals) ==
    IF column_names = <<>> THEN fr
    ELSE column_names_loop(
            Check(fr, "column", allowed_value_column(Head(column_names), literals), literals),
            Tail(column_names), literals)

\* append_row(table_name, column_names, row, con, cursor)
append_row(table_name, column_names, row, literals, con, pending) ==
    LET coerced == coerce_loop(Frame(pending, row), 1)
        t == allowed_value_table(table_name, literals)
        named == Emit(Check(coerced, "table", t, literals),
                      kw_insert \o t.val \o <<" ", "(">>)
        listed == Emit(column_names_loop(named, column_names, literals),
                       join(<<",", " ">>,
                            [i \in DOMAIN column_names |->
                                allowed_value_column(column_names[i], literals).val]))
        marked == Emit(Emit(listed, kw_values),
                       Repeat(<<"?", ",", " ">>, Len(coerced.row)))
        query == Emit(Strip(marked), <<")", ";">>)
    IN  con_commit(cursor_execute(query, coerced.row, con.execute_ok), con.commit_ok)

-----------------------------------------------------------------------------
(* The arguments the callers pass.                                          *)

\* accepted; accepted and reserved; rejected; accepted though it ends in a newline
TableNames ==
    { <<"T">>, <<"A", "s">>, <<"t">>, <<"T", "\n">> }
ColumnNames ==
    { <<"a">>, <<"a", "s">>, <<"a", ";">>, <<"a", "\n">> }

Column(name, datatype, constraints) ==
    [name |-> name, datatype |-> datatype, constraints |-> constraints]
Columns ==
    { Column(<<"a">>, <<"I", "N", "T">>, << <<"N", "O", "T", " ", "N", "U", "L", "L">>, <<"u", "n", "i", "q", "u", "e">> >>),
      Column(<<"a", "s">>, <<"i", "n", "t">>, << <<"U", "N", "I", "Q", "U", "E">>, <<"n", "o", "t", " ", "n", "u", "l", "l">> >>),
      Column(<<"b">>, <<"T", "e", "x", "t", "s">>, <<>>),
      Column(<<"a", ";">>, <<"I", "N", "T">>, <<>>),
      Column(<<"a", "\n">>, <<"D", "R", "O", "P">>, <<>>),
      Column(<<"b">>, <<"I", "N", "T">>, << <<"D", "R", "O", "P">> >>) }

ForeignKey(name, references_table, references_column) ==
    [name |-> name, references_table |-> references_table,
     references_column |-> references_column]
ForeignKeyLists ==
    { <<>>,
      << ForeignKey(<<"a">>, <<"T">>, <<"b">>) >>,
      << ForeignKey(<<"a">>, <<"t">>, <<"b">>) >>,
      << ForeignKey(<<"a", "s">>, <<"A", "s">>, <<"a">>), ForeignKey(<<"b">>, <<"T", "\n">>, <<"a", "\n">>) >> }

RowValues ==
    { StrV(<<"1">>), StrV(<<"x">>), StrV(<<"f", "a", "l", "s", "e">>), IntV(7) }

\* all sequences over S of length at most n
RECURSIVE SeqsUpTo(_, _)
SeqsUpTo(S, n) ==
    IF n = 0 THEN {<<>>}
    ELSE LET shorter == SeqsUpTo(S, n - 1)
         IN  shorter \cup {Append(q, x) : q \in shorter, x \in S}

Schemas ==
    { [name |-> n, columns |-> cs, has_foreign_keys |-> TRUE, foreign_keys |-> fks] :
        n \in TableNames, cs \in SeqsUpTo(Columns, MaxCols), fks \in ForeignKeyLists }
    \cup
    { [name |-> n, columns |-> cs, has_foreign_keys |-> FALSE, foreign_keys |-> <<>>] :
        n \in TableNames, cs \in SeqsUpTo(Columns, MaxCols) }

\* how the connection answers: execute and commit each succeed or raise
Connections ==
    { [execute_ok |-> TRUE, commit_ok |-> TRUE],
      [execute_ok |-> TRUE, commit_ok |-> FALSE],
      [execute_ok |-> FALSE, commit_ok |-> TRUE] }

\* the values coercion is tried on: every text of at most MaxLen characters
\* over a small alphabet, the keywords and their near misses, and values
\* that are not text
CoerceAlphabet == {"0", "1", ".", "\n", "a"}
CoerceInputs ==
    {StrV(x) : x \in TextsUpTo(CoerceAlphabet, MaxLen)}
    \cup {StrV(x) : x \in { <<"t", "r", "u", "e">>, <<"f", "a", "l", "s", "e">>, <<"n", "u", "l", "l">>, <<"t", "r", "u", "e", "\n">>, <<"n", "u", "l", "l", "\n">>,
                            <<"T", "r", "u", "e">>, <<"n", "u", "l", "l", "s">>, <<"1", ".", "5", "0">>, <<"0", "0", "7">>, <<" ", "1">>,
                            <<"h", "e", "l", "l", "o">> }}
    \cup {IntV(n) : n \in {0 - 5, 0, 42}}
    \cup {FloatV(314, 2), FloatV(1, 0), BoolV(TRUE), BoolV(FALSE), NoneV}

\* the texts the identifier validators are tried on
NameAlphabet == {"A", "a", "s", "_", "1", " ", ";", "\n"}
NameInputs == TextsUpTo(NameAlphabet, MaxLen)

-----------------------------------------------------------------------------
(* The program: the three user-accessible functions, each run to its end.  *)

NoCall ==
    [op |-> "none", args |-> <<>>, after |-> <<>>, events |-> <<>>,
     sent |-> NoStatement, outcome |-> "none", literals |-> NotLoaded,
     pending |-> 0]
NoResult == [err |-> "pending"]

Init ==
    /\ sql_literals = NotLoaded
    /\ uncommitted = 0
    /\ call = NoCall
    /\ input = <<>>
    /\ result = NoResult

\* connect(): the catalog is loaded first; then the environment is read and
\* the driver connects, and either may fail
connect ==
    /\ call.op = "none"
    /\ \E outcome \in {"FileNotFoundError", "Missing environment variables",
                       "pyodbc.Error", "none"} :
        /\ sql_literals' = IF outcome = "FileNotFoundError"
                           THEN sql_literals ELSE sql_literals_json
        /\ call' = [NoCall EXCEPT !.op = "connect", !.outcome = outcome,
                                  !.literals = sql_literals,
                                  !.pending = uncommitted]
    /\ UNCHANGED <<uncommitted, input, result>>

\* what the caller can tell of a finished call: the arguments as passed and
\* as they are now, the calls made on the connection and the validators, the
\* exception if any, and the catalog and the connection as they were before
Returned_call(op, args, after, fr, literals, pending) ==
    [op |-> op, args |-> args, after |-> after, events |-> fr.events,
     sent |-> fr.sent, outcome |-> fr.err, literals |-> literals,
     pending |-> pending]

TableCreator ==
    /\ call.op = "none"
    /\ uncommitted < MaxPending
    /\ \E table_schema \in Schemas, con \in Connections :
        LET fr == table_creator(table_schema, sql_literals, con, uncommitted)
            args == [table_schema |-> table_schema]
        IN  /\ call' = Returned_call("table_creator", args, args, fr,
                                     sql_literals, uncommitted)
            /\ uncommitted' = fr.pending
    /\ UNCHANGED <<sql_literals, input, result>>

AppendRow ==
    /\ call.op = "none"
    /\ uncommitted < MaxPending
    /\ \E table_name \in TableNames, column_names \in SeqsUpTo(ColumnNames, MaxCols),
          row \in SeqsUpTo(RowValues, MaxRow), con \in Connections :
        LET fr == append_row(table_name, column_names, row, sql_literals, con, uncommitted)
            args == [table_name |-> table_name, column_names |-> column_names,
                     row |-> row]
        IN  /\ call' = Returned_call("append_row", args, [args EXCEPT !.row = fr.row],
                                     fr, sql_literals, uncommitted)
            /\ uncommitted' = fr.pending
    /\ UNCHANGED <<sql_literals, input, result>>

\* the caller goes on: the finished call's locals are gone
Return ==
    /\ call.op # "none"
    /\ call' = NoCall
    /\ UNCHANGED <<sql_literals, uncommitted, input, result>>

Next == connect \/ TableCreator \/ AppendRow \/ Return

Spec == Init /\ [][Next]_vars

-----------------------------------------------------------------------------
(* The pure functions on their own, each applied to one drawn input.       *)

InitCoerce ==
    /\ sql_literals = NotLoaded
    /\ uncommitted = 0
    /\ call = NoCall
    /\ input \in CoerceInputs
    /\ result = NoResult

Coerce ==
    /\ result = NoResult
    /\ result' = convert_to_python_type(input)
    /\ UNCHANGED <<sql_literals, uncommitted, call, input>>

NextCoerce == Coerce

SpecCoerce == InitCoerce /\ [][NextCoerce]_vars

InitValidate ==
    /\ sql_literals = sql_literals_json
    /\ uncommitted = 0
    /\ call = NoCall
    /\ input \in NameInputs
    /\ result = NoResult

ValidateTable ==
    /\ result = NoResult
    /\ result' = allowed_value_table(input, sql_literals)
    /\ UNCHANGED <<sql_literals, uncommitted, call, input>>

NextValidate == ValidateTable

SpecValidate == InitValidate /\ [][NextValidate]_vars

-----------------------------------------------------------------------------
(* Vocabulary of the properties.                                            *)

Builders == {"table_creator", "append_row"}
Indices(kind) == {i \in DOMAIN call.events : call.events[i].ev = kind}
Letters == UpperChars \cup LowerChars

\* the validator calls a call makes when none of them rejects
RECURSIVE SumConstraints(_)
SumConstraints(columns) ==
    IF columns = <<>> THEN 0
    ELSE 2 + Len(Head(columns).constraints) + SumConstraints(Tail(columns))
NumValidators ==
    IF call.op = "table_creator"
    THEN 1 + SumConstraints(call.args.table_schema.columns)
           + (IF call.args.table_schema.has_foreign_keys
              THEN 3 * Len(call.args.table_schema.foreign_keys) ELSE 0)
    ELSE 1 + Len(call.args.column_names)

\* text s holds the text part somewhere
Contains(s, part) == \E i \in 1..(Len(s) + 1) : HasAt(s, i, part)
CountOf(s, c) == Cardinality({i \in DOMAIN s : s[i] = c})

\* an identifier with one pair of backticks taken off, if it has one
Unquoted(s) ==
    IF Len(s) >= 2 /\ s[1] = Backtick /\ s[Len(s)] = Backtick
    THEN SubSeq(s, 2, Len(s) - 1) ELSE s
IsTableName(s) ==
    /\ Len(s) >= 1
    /\ s[1] \in UpperChars
    /\ \A i \in 2..Len(s) : s[i] \in Letters \cup {"_"}
IsColumnName(s) == \A i \in 1..Len(s) : s[i] \in LowerChars \cup {"_"}
Quoted(s) ==
    IF upper(s) \in sql_literals_json.reserved_words
    THEN <<Backtick>> \o s \o <<Backtick>> ELSE s

-----------------------------------------------------------------------------
(* C1: a call of append_row whose column names and row differ in length    *)
(* fails and invokes neither execute nor commit.  (Any exception is taken  *)
(* for the arity error here, so a violation is an INSERT that was sent.)   *)
C1_ArityMismatchIssuesNoSql ==
    (call.op = "append_row" /\ Len(call.args.column_names) # Len(call.args.row))
    => /\ call.outcome # "none"
       /\ Indices("execute") = {}
       /\ Indices("commit") = {}

(* C2: in every call of table_creator and append_row, execute is invoked   *)
(* at most once and only after every validator call of the invocation has  *)
(* accepted, commit at most once and only right after a successful         *)
(* execute; after a rejection neither is invoked, and a failed execute is  *)
(* the last thing the call does.                                           *)
C2_ValidateBuildExecuteCommit ==
    call.op \in Builders =>
        LET ev == call.events
            X == Indices("execute")
            Cm == Indices("commit")
        IN  /\ Cardinality(X) <= 1
            /\ Cardinality(Cm) <= 1
            /\ \A i \in X :
                /\ i = NumValidators + 1
                /\ \A j \in 1..(i - 1) : ev[j].ev = "validate" /\ ev[j].ok
                /\ call.sent.sent
                /\ ~ev[i].ok => i = Len(ev)
            /\ \A i \in Cm : i > 1 /\ ev[i - 1].ev = "execute" /\ ev[i - 1].ok
            /\ (\E j \in DOMAIN ev : ev[j].ev = "validate" /\ ~ev[j].ok)
                    => X = {} /\ Cm = {} /\ ~call.sent.sent

\* a table with columns, constraints and foreign keys was created and committed
C2_Witness ==
    /\ call.op = "table_creator"
    /\ call.args.table_schema.has_foreign_keys
    /\ Len(call.args.table_schema.foreign_keys) = 2
    /\ Len(call.args.table_schema.columns) = 2
    /\ Len(call.events) = NumValidators + 2
    /\ call.events[Len(call.events)].ev = "commit"
    /\ call.outcome = "none"

(* C3: a call of table_creator or append_row ends either with its          *)
(* statement executed and committed, or with no effect: the connection     *)
(* holds no more uncommitted statements than before and the caller's       *)
(* arguments are as they were.                                             *)
C3_AllOrNothing ==
    call.op \in Builders =>
        \/ /\ call.outcome = "none"
           /\ \E i \in Indices("execute") : call.events[i].ok
           /\ \E i \in Indices("commit") : call.events[i].ok
           /\ uncommitted = 0
        \/ /\ call.outcome # "none"
           /\ uncommitted = call.pending
           /\ call.after = call.args

(* C4: whenever a validator reads the catalog sql_literals, it is loaded.  *)
C4_CatalogLoadedWhenRead ==
    \A i \in Indices("validate") : call.events[i].catalog # "unloaded"

(* C5: every table or column identifier in SQL text handed to execute is   *)
(* made of letters and underscores only (a table name: an uppercase letter *)
(* first; a column name: lowercase letters and underscores), with at most  *)
(* one pair of backticks around it.                                        *)
C5_IdentifiersAreSafe ==
    (call.op \in Builders /\ call.sent.sent) =>
        \A i \in Indices("validate") :
            /\ call.events[i].kind = "table" => IsTableName(Unquoted(call.events[i].val))
            /\ call.events[i].kind = "column" => IsColumnName(Unquoted(call.events[i].val))

(* C6: allowed_value_table(s) succeeds iff s is one uppercase letter       *)
(* followed by letters and underscores; it then returns s in backticks if  *)
(* uppercase(s) is a reserved word and s itself otherwise; for every other *)
(* text it raises the invalid-identifier error.                            *)
C6_TableNameAcceptedIffWellFormed ==
    result # NoResult =>
        /\ result.err = "none" <=> IsTableName(input)
        /\ result.err = "none" => result.val = Quoted(input)
        /\ result.err # "none" => result.err = "ValueError"

\* the number a text of digits denotes, read from the left
RECURSIVE Horner(_, _)
Horner(s, acc) ==
    IF s = <<>> THEN acc
    ELSE Horner(Tail(s), 10 * acc + (CHOOSE d \in 0..9 : DigitSeq[d + 1] = Head(s)))
IsDigits(s) == s # <<>> /\ \A i \in DOMAIN s : s[i] \in DigitChars
\* the text is whole.frac, both digits
IsDecimal(s, whole, frac) == IsDigits(whole) /\ IsDigits(frac) /\ s = whole \o <<".">> \o frac

ColumnDef(column) ==
    Quoted(column.name) \o <<" ">> \o lower(column.datatype) \o <<" ">>
    \o Flatten([i \in DOMAIN column.constraints |-> upper(column.constraints[i]) \o <<" ">>])
ForeignKeyClause(fk) ==
    <<"F", "O", "R", "E", "I", "G", "N", " ", "K", "E", "Y", " ", "(">> \o Quoted(fk.name) \o <<")", " ", "R", "E", "F", "E", "R", "E", "N", "C", "E", "S", " ">>
    \o Quoted(fk.references_table) \o <<"(">> \o Quoted(fk.references_column) \o <<")", " ">>
Defs(table_schema) ==
    [i \in DOMAIN table_schema.columns |-> ColumnDef(table_schema.columns[i])]
    \o [i \in DOMAIN table_schema.foreign_keys |->
            ForeignKeyClause(table_schema.foreign_keys[i])]

(* C8: for a schema whose every name, data type, constraint and foreign-   *)
(* key field passes its validator, table_creator hands execute the text    *)
(* CREATE TABLE IF NOT EXISTS <table> (<defs>); with no bound parameters,  *)
(* <defs> being the column definitions in input order, then the FOREIGN    *)
(* KEY clauses in input order, separated by ", ", each column's            *)
(* constraints in the order given.                                         *)
C8_CreateTableText ==
    (call.op = "table_creator" /\ call.sent.sent) =>
        /\ call.sent.text =
              <<"C", "R", "E", "A", "T", "E", " ", "T", "A", "B", "L", "E", " ", "I", "F", " ", "N", "O", "T", " ", "E", "X", "I", "S", "T", "S", " ">> \o Quoted(call.args.table_schema.name)
              \o <<" ", "(">> \o join(<<",", " ">>, Defs(call.args.table_schema)) \o <<")", ";">>
        /\ call.sent.params = <<>>

\* a statement with two columns, both with two constraints, and two foreign keys
C8_Witness ==
    /\ call.op = "table_creator"
    /\ call.sent.sent
    /\ Len(call.args.table_schema.columns) = 2
    /\ \A i \in 1..2 : Len(call.args.table_schema.columns[i].constraints) = 2
    /\ call.args.table_schema.columns[1] # call.args.table_schema.columns[2]
    /\ Len(call.args.table_schema.foreign_keys) = 2

(* C9: in every statement append_row hands to execute, the text has as     *)
(* many ? placeholders as column names and as bound parameters, the i-th   *)
(* bound parameter is the coercion of the i-th row value, and no textual   *)
(* row value appears in the text.                                          *)
C9_PlaceholdersMatchColumnsAndParams ==
    (call.op = "append_row" /\ call.sent.sent) =>
        /\ CountOf(call.sent.text, "?") = Len(call.args.column_names)
        /\ CountOf(call.sent.text, "?") = Len(call.sent.params)
        /\ Len(call.sent.params) = Len(call.args.row)
        /\ \A i \in DOMAIN call.args.row :
            /\ call.sent.params[i] = convert_to_python_type(call.args.row[i]).v
            /\ call.args.row[i].t = "str" => ~Contains(call.sent.text, call.args.row[i].s)

(* C10: after any call of table_creator or append_row, failed or not, the  *)
(* caller's schema, column-name list and row list hold the values they     *)
(* held before the call, and the call left the module's state as it was.   *)
C10_CallerDataUnchanged ==
    call.op \in Builders =>
        /\ call.after = call.args
        /\ sql_literals = call.literals

====
